---- MODULE Spec2Model ----
(***************************************************************************)
(* A model of the saliency-map core of fastcam: the channel statistics,    *)
(* Normalize2D and CombineSaliencyMaps of maps.py and the SmoothGrad       *)
(* aggregation loop of misc.py.                                            *)
(*                                                                         *)
(* Numbers.  A torch float is modelled as an exact rational <<n, d>> in    *)
(* lowest terms with d > 0.  A denominator of 0 encodes the non-finite     *)
(* IEEE values: <<0,0>> is NaN, <<1,0>> is +inf and <<-1,0>> is -inf.      *)
(* Tensors are records [kind, shape, data] with data in row-major order.   *)
(***************************************************************************)
EXTENDS Integers, Sequences, FiniteSets, TLC

VARIABLES
    cargs,      \* the arguments CombineSaliencyMaps was constructed with
    combiner,   \* the CombineSaliencyMaps object, once constructed
    cres,       \* the outcome of the last CombineSaliencyMaps call
    mcall,      \* the last call of one of the channel/normalising layers
    sg,         \* the SmoothGrad object: iters, magnitude, stdev_spread, maps_magnitude
    hooks,      \* the layer observers passed to SmoothGrad.__call__
    call,       \* the other arguments of the call: weights, debug, the input as passed
    in_tensor,  \* in_tensor
    getCsmap,   \* the call's CombineSaliencyMaps object
    stdev,      \* stdev
    pc,         \* where the call is: "ready", "loop", "done" or "error"
    iter,       \* the number of iterations completed
    out_csmap,  \* out_csmap
    out_smaps,  \* out_smaps
    ret_image,  \* ret_image
    hist        \* what each completed iteration computed, in order

cvars == <<cargs, combiner, cres>>

svars == <<sg, hooks, call, in_tensor, getCsmap, stdev, pc, iter, out_csmap, out_smaps,
           ret_image, hist>>

vars == <<cargs, combiner, cres, mcall, sg, hooks, call, in_tensor, getCsmap, stdev,
          pc, iter, out_csmap, out_smaps, ret_image, hist>>

-----------------------------------------------------------------------------
(* Bounds of the model *)

MaxWeight == 3      \* layer weights range over 1..MaxWeight
MaxVal == 1         \* pixel values of generated maps range over 0..MaxVal
MaxExp == 2         \* generated activations are 2^j - 1 units, j in 0..MaxExp
MaxMag == 5         \* pre-ReLU channel values range over -MaxMag..MaxMag
MaxIters == 2       \* SmoothGrad.iters ranges over 1..MaxIters

-----------------------------------------------------------------------------
(* Rational arithmetic with IEEE non-finite values *)

Abs(x) == IF x < 0 THEN -x ELSE x

Sign(x) == IF x < 0 THEN -1 ELSE IF x > 0 THEN 1 ELSE 0

RECURSIVE GCD(_, _)
GCD(a, b) == IF b = 0 THEN a ELSE GCD(b, a % b)

NaN == <<0, 0>>

Q(n, d) ==
    IF d = 0 THEN <<Sign(n), 0>>
    ELSE LET g == GCD(Abs(n), Abs(d))
             s == IF d < 0 THEN -1 ELSE 1
         IN  <<s * (n \div g), s * (d \div g)>>

R(n) == <<n, 1>>

Zero == R(0)

One == R(1)

IsFinite(a) == a[2] # 0

IsNaN(a) == a = NaN

RNeg(a) == <<-a[1], a[2]>>

RAdd(a, b) ==
    IF IsFinite(a) /\ IsFinite(b)
    THEN LET g == GCD(a[2], b[2])
         IN  Q(a[1] * (b[2] \div g) + b[1] * (a[2] \div g), (a[2] \div g) * b[2])
    ELSE IF IsNaN(a) \/ IsNaN(b) THEN NaN
    ELSE IF ~IsFinite(a) /\ ~IsFinite(b)
         THEN (IF a = b THEN a ELSE NaN)
    ELSE IF IsFinite(a) THEN b ELSE a

RSub(a, b) == RAdd(a, RNeg(b))

RMul(a, b) ==
    IF IsFinite(a) /\ IsFinite(b)
    THEN LET g1 == GCD(Abs(a[1]), b[2])
             g2 == GCD(Abs(b[1]), a[2])
         IN  Q((a[1] \div g1) * (b[1] \div g2), (a[2] \div g2) * (b[2] \div g1))
    ELSE IF IsNaN(a) \/ IsNaN(b) THEN NaN
    ELSE <<Sign(a[1]) * Sign(b[1]), 0>>

RInv(a) ==
    IF IsFinite(a)
    THEN (IF a[1] = 0 THEN <<1, 0>> ELSE Q(a[2], a[1]))
    ELSE IF IsNaN(a) THEN NaN ELSE Zero

RDiv(a, b) == RMul(a, RInv(b))

\* a < b, false when either side is NaN
RLt(a, b) ==
    IF IsNaN(a) \/ IsNaN(b) THEN FALSE
    ELSE IF IsFinite(a) /\ IsFinite(b) THEN a[1] * b[2] < b[1] * a[2]
    ELSE IF IsFinite(a) THEN b[1] > 0
    ELSE IF IsFinite(b) THEN a[1] < 0
    ELSE a[1] < b[1]

RLe(a, b) == ~IsNaN(a) /\ ~IsNaN(b) /\ ~RLt(b, a)

RECURSIVE RSum(_)
RSum(s) == IF s = <<>> THEN Zero ELSE RAdd(s[1], RSum(Tail(s)))

RECURSIVE Prod(_)
Prod(s) == IF s = <<>> THEN 1 ELSE s[1] * Prod(Tail(s))

-----------------------------------------------------------------------------
(* Tensors *)

Tensor(shape, data) == [kind |-> "tensor", shape |-> shape, data |-> data]

\* a Python value that is not a tensor (None)
NoTensor == [kind |-> "none", shape |-> <<>>, data |-> <<>>]

IsTensor(t) == t.kind = "tensor"

Rank(t) == Len(t.shape)

Numel(t) == Prod(t.shape)

\* a sequence given by a function constructor, as an explicit tuple
Tuple(f) == f \o <<>>

Full(shape, v) == Tensor(shape, Tuple([k \in 1..Prod(shape) |-> v]))

\* the k-th block of n consecutive elements of a flat sequence, k from 1
Block(data, k, n) == SubSeq(data, (k - 1) * n + 1, k * n)

RECURSIVE Flatten(_)
Flatten(ss) == IF ss = <<>> THEN <<>> ELSE ss[1] \o Flatten(Tail(ss))

\* elementwise product of a tensor with itself (w*w, csmap*csmap)
TSquare(t) == Tensor(t.shape, Tuple([k \in 1..Len(t.data) |-> RMul(t.data[k], t.data[k])]))

\* a tensor times a scalar
TScale(t, c) == Tensor(t.shape, Tuple([k \in 1..Len(t.data) |-> RMul(t.data[k], c)]))

\* a tensor divided by a scalar
TDivScalar(t, c) == Tensor(t.shape, Tuple([k \in 1..Len(t.data) |-> RDiv(t.data[k], c)]))

\* elementwise sum of two tensors of one shape
TAdd(a, b) == Tensor(a.shape, Tuple([k \in 1..Len(a.data) |-> RAdd(a.data[k], b.data[k])]))

-----------------------------------------------------------------------------
(* nn.functional.interpolate(mode='bilinear', align_corners=False) *)

\* source coordinate of output index dst (from 0): in/out * (dst + 0.5) - 0.5,
\* clamped at 0
SrcIndex(dst, inSz, outSz) ==
    LET n == inSz * (2 * dst + 1) - outSz
    IN  IF n < 0 THEN Zero ELSE Q(n, 2 * outSz)

\* one image of h x w resized to H x W
Bilinear(img, h, w, H, W) ==
    Tuple([k \in 1..(H * W) |->
        LET oy == (k - 1) \div W
            ox == (k - 1) % W
            sy == SrcIndex(oy, h, H)
            sx == SrcIndex(ox, w, W)
            y0 == sy[1] \div sy[2]
            x0 == sx[1] \div sx[2]
            y1 == IF y0 < h - 1 THEN y0 + 1 ELSE y0
            x1 == IF x0 < w - 1 THEN x0 + 1 ELSE x0
            ly == RSub(sy, R(y0))
            lx == RSub(sx, R(x0))
            at(y, x) == img[y * w + x + 1]
            row(y) == RAdd(RMul(RSub(One, lx), at(y, x0)), RMul(lx, at(y, x1)))
        IN  RAdd(RMul(RSub(One, ly), row(y0)), RMul(ly, row(y1)))])

\* a 4D tensor [N, C, h, w] resized to [N, C, size[1], size[2]]
Interpolate(t, size) ==
    LET h == t.shape[3]
        w == t.shape[4]
        n == t.shape[1] * t.shape[2]
    IN  Tensor(<<t.shape[1], t.shape[2], size[1], size[2]>>,
               Flatten([b \in 1..n |-> Bilinear(Block(t.data, b, h * w), h, w, size[1], size[2])]))

-----------------------------------------------------------------------------
(* Elementary functions.  log2 and erf are not rational; each is modelled by   *)
(* a rational approximation that keeps its sign, monotonicity, symmetry and   *)
(* the values the float result saturates to.                                 *)

\* 2^e for e >= 0
RECURSIVE Pow2(_)
Pow2(e) == IF e = 0 THEN 1 ELSE 2 * Pow2(e - 1)

\* the e >= 0 with 2^e <= n/d < 2^(e+1), for n >= d > 0
RECURSIVE FloorLog2(_, _)
FloorLog2(n, d) == IF n < 2 * d THEN 0 ELSE 1 + FloorLog2(n, 2 * d)

\* the e >= 1 with 2^(-e) <= n/d < 2^(1-e), for 0 < n < d
RECURSIVE CeilLog2Inv(_, _)
CeilLog2Inv(n, d) == IF 2 * n >= d THEN 1 ELSE 1 + CeilLog2Inv(2 * n, d)

\* torch.log2: NaN below 0, -inf at 0, else the piecewise-linear interpolant of
\* log2 between consecutive powers of two (exact at the powers of two)
Log2(r) ==
    IF IsNaN(r) THEN NaN
    ELSE IF ~IsFinite(r) THEN (IF r[1] > 0 THEN r ELSE NaN)
    ELSE IF r[1] < 0 THEN NaN
    ELSE IF r[1] = 0 THEN <<-1, 0>>
    ELSE IF r[1] >= r[2]
         THEN LET e == FloorLog2(r[1], r[2])
              IN  RAdd(R(e - 1), Q(r[1], r[2] * Pow2(e)))
    ELSE LET e == CeilLog2Inv(r[1], r[2])
         IN  RSub(Q(r[1] * Pow2(e), r[2]), R(e + 1))

\* |erf(z)| as a step function of z^2; erf(z) is 1 in float arithmetic once
\* z^2 >= 18
ErfTable(zsq) ==
    IF RLt(zsq, Q(1, 2)) THEN Q(3, 8)
    ELSE IF RLt(zsq, R(2)) THEN Q(7, 8)
    ELSE IF RLt(zsq, R(18)) THEN Q(63, 64)
    ELSE One

\* torch.erf(num / sqrt(densq)): the divisor is a square root (a standard
\* deviation times sqrt 2) and is given by its square
Erf(num, densq) ==
    IF IsNaN(num) \/ IsNaN(densq) THEN NaN
    ELSE IF num = Zero THEN (IF densq = Zero THEN NaN ELSE Zero)
    ELSE RMul(R(Sign(num[1])), ErfTable(RDiv(RMul(num, num), densq)))

\* x.mean() of a sequence
Mean(xs) == RDiv(RSum(xs), R(Len(xs)))

\* the square of x.std() of a sequence (unbiased: NaN for a single element)
Variance(xs) ==
    LET m == Mean(xs)
    IN  RDiv(RSum(Tuple([k \in 1..Len(xs) |-> RMul(RSub(xs[k], m), RSub(xs[k], m))])),
             R(Len(xs) - 1))

-----------------------------------------------------------------------------
(* The layers of maps.py.  A 4D input is [B, C, h, w]; the channel vector at  *)
(* sample b and pixel p is read along dimension 1.                            *)

\* 1 / 0.0000001
EpsInv == 10000000

ErrorTensor == [kind |-> "error", shape |-> <<>>, data |-> <<>>]

\* the values along dim=1 of a tensor [B, C, ...] at sample b, position p
ChannelsAt(x, b, p) ==
    LET C == x.shape[2]
        n == Numel(x) \div (x.shape[1] * C)
    IN  Tuple([c \in 1..C |-> x.data[(b - 1) * C * n + (c - 1) * n + p]])

\* the channel vectors of x, one per sample and position, in the order of the
\* elements of a reduction over dim=1
PixelChannels(x) ==
    LET B == x.shape[1]
        n == Numel(x) \div (B * x.shape[2])
    IN  Tuple([k \in 1..(B * n) |->
            ChannelsAt(x, ((k - 1) \div n) + 1, ((k - 1) % n) + 1)])

\* the shape of a reduction over dim=1 of x: [B, ...]
ReducedShape(x) == <<x.shape[1]>> \o SubSeq(x.shape, 3, Len(x.shape))

\* SMOEScaleMap at one pixel with the mean taken before 0.0000001 is added
SMOEScaleAtMeanBeforeEps(xs, run_relu) ==
    LET r == Tuple([c \in 1..Len(xs) |->
                 IF run_relu /\ RLt(xs[c], Zero) THEN Zero ELSE xs[c]])
        x == Tuple([c \in 1..Len(xs) |-> RAdd(r[c], One)])
        m == Mean(r)
        k == RSub(Log2(m), Mean(Tuple([c \in 1..Len(x) |-> Log2(x[c])])))
    IN  RMul(k, m)

\* SMOEScaleMap at one pixel, on the channel values xs.  Activations are
\* measured in units of 0.0000001, so that x + 0.0000001 is x + 1.
SMOEScaleAt(xs, run_relu) ==
    LET r == Tuple([c \in 1..Len(xs) |->
                 IF run_relu /\ RLt(xs[c], Zero) THEN Zero ELSE xs[c]])
        x == Tuple([c \in 1..Len(xs) |-> RAdd(r[c], One)])
        m == Mean(x)
        k == RSub(Log2(m), Mean(Tuple([c \in 1..Len(x) |-> Log2(x[c])])))
    IN  RMul(k, m)

SMOEScaleMapForward(x, run_relu) ==
    IF ~(IsTensor(x) /\ Rank(x) > 2) THEN ErrorTensor
    ELSE LET xs == PixelChannels(x)
         IN  Tensor(ReducedShape(x),
                    Tuple([k \in 1..Len(xs) |-> SMOEScaleAt(xs[k], run_relu)]))

\* Normalize2D on one sample: 0.5*(1 + erf((x-m)/(s*sqrt(2))))
Normalize2DSample(xs) ==
    LET m == Mean(xs)
        v == Variance(xs)
    IN  Tuple([k \in 1..Len(xs) |->
            RMul(Q(1, 2), RAdd(One, Erf(RSub(xs[k], m), RMul(v, R(2)))))])

Normalize2DForward(x) ==
    IF ~(IsTensor(x) /\ Rank(x) = 3) THEN ErrorTensor
    ELSE LET n == x.shape[2] * x.shape[3]
         IN  Tensor(x.shape,
                    Flatten(Tuple([b \in 1..x.shape[1] |->
                        Normalize2DSample(Block(x.data, b, n))])))

\* cdf = _compute_cdf(a) + 0.0000001 with a = (0 - m)/s
TruncCdf(m, v) ==
    RAdd(RMul(Q(1, 2), RAdd(One, Erf(RNeg(m), RMul(v, R(2))))), Q(1, EpsInv))

\* Z = 1.0 - cdf
TruncZ(cdf) == RSub(One, cdf)

\* the sign of a value: -1, 0, 1 or NaN
RSign(a) == IF IsNaN(a) THEN NaN ELSE R(Sign(a[1]))

\* TruncNormalEntMap at one pixel.  The entropy T1 + T2 is not rational; the
\* result records the terms that decide it: the standard deviation by its
\* square, Z, the sign of the logarithm's argument c3*s*Z, the divisor 2.0*Z,
\* and whether the entropy is a finite number.
TruncNormalEntAt(xs) ==
    LET m == Mean(xs)
        v == Variance(xs)
        cdf == TruncCdf(m, v)
        Z == TruncZ(cdf)
        arg == RMul(RSign(v), RSign(Z))
        div == RMul(R(2), Z)
    IN  [m |-> m, var |-> v, cdf |-> cdf, Z |-> Z, logarg |-> arg, divisor |-> div,
         finite |-> IsFinite(v) /\ RLt(Zero, arg) /\ div # Zero]

TruncNormalEntMapForward(x) ==
    IF ~(IsTensor(x) /\ Rank(x) > 2) THEN ErrorTensor
    ELSE LET xs == PixelChannels(x)
         IN  Tensor(ReducedShape(x),
                    Tuple([k \in 1..Len(xs) |-> TruncNormalEntAt(xs[k])]))

-----------------------------------------------------------------------------
(* CombineSaliencyMaps *)

\* the weights argument: None, a Python list or a 1D tensor
NoWeights == [kind |-> "none", vals |-> <<>>]

WeightList(vals) == [kind |-> "list", vals |-> vals]

WeightTensor(vals) == [kind |-> "tensor", vals |-> vals]

NoCombiner ==
    [state |-> "none", weights |-> <<>>, weight_sum |-> Zero, map_num |-> 0,
     output_size |-> <<>>, magnitude |-> FALSE]

FailedCombiner == [NoCombiner EXCEPT !.state = "error"]

\* assert(weights > 0) on a weights argument of length 1: a list compared with
\* an int raises TypeError, a tensor compares elementwise
ScalarWeightCheck(weights) ==
    /\ weights.kind = "tensor"
    /\ \A i \in 1..Len(weights.vals) : RLt(Zero, weights.vals[i])

\* self.weights
CombineWeights(map_num, weights) ==
    IF weights.kind = "none" THEN [i \in 1..map_num |-> One]
    ELSE IF Len(weights.vals) = 1 THEN [i \in 1..map_num |-> weights.vals[1]]
    ELSE weights.vals

\* the constructor's assertions
CombineInitOk(output_size, map_num, weights) ==
    /\ Len(output_size) = 2
    /\ output_size[1] > 0
    /\ output_size[2] > 0
    /\ map_num > 0
    /\ weights.kind # "none" =>
          IF Len(weights.vals) = 1
          THEN ScalarWeightCheck(weights)
          ELSE Len(weights.vals) = map_num

CombineSaliencyMapsInit(output_size, map_num, weights, magnitude) ==
    IF CombineInitOk(output_size, map_num, weights)
    THEN [state |-> "ok",
          weights |-> CombineWeights(map_num, weights),
          weight_sum |-> RSum(CombineWeights(map_num, weights)),
          map_num |-> map_num,
          output_size |-> output_size,
          magnitude |-> magnitude]
    ELSE FailedCombiner

NoResult == [status |-> "none", cm |-> NoTensor, ww |-> NoTensor]

ErrorResult == [NoResult EXCEPT !.status = "error"]

\* the checks made before the loop
ForwardPre(self, smaps) ==
    /\ Len(smaps) = self.map_num
    /\ IsTensor(smaps[1])
    /\ Rank(smaps[1]) = 3

\* whether the loop body runs through for element t: is_tensor, three sizes to
\* read, a reshape that keeps the element count, and a batch size that adds into
\* cm and stacks with the others
LayerOk(t, bn) ==
    /\ IsTensor(t)
    /\ Rank(t) >= 3
    /\ Numel(t) = t.shape[1] * t.shape[2] * t.shape[3]
    /\ t.shape[1] = bn

\* w: the element reshaped to [wsz0, 1, wsz1, wsz2], resized, squared in
\* magnitude mode
LayerMap(self, t) ==
    LET w == Interpolate(Tensor(<<t.shape[1], 1, t.shape[2], t.shape[3]>>, t.data),
                         self.output_size)
    IN  IF self.magnitude THEN TSquare(w) ELSE w

\* a combiner that adds the layers without their weights
UnweightedLayer(w, weight) == w

\* w * self.weights[i]
WeightedLayer(w, weight) == TScale(w, weight)

\* cm after the maps ws[i..] have been weighted and added into it
RECURSIVE CombineLoop(_, _, _, _)
CombineLoop(self, ws, i, cm) ==
    IF i > Len(ws) THEN cm
    ELSE CombineLoop(self, ws, i + 1, TAdd(cm, WeightedLayer(ws[i], self.weights[i])))

\* cm / self.weight_sum
CombineNormalise(self, cm) == TDivScalar(cm, self.weight_sum)

CombineSaliencyMapsForward(self, smaps) ==
    IF ~ForwardPre(self, smaps) THEN ErrorResult
    ELSE LET bn == smaps[1].shape[1]
             H == self.output_size[1]
             W == self.output_size[2]
         IN  IF \E i \in 1..Len(smaps) : ~LayerOk(smaps[i], bn) THEN ErrorResult
             ELSE LET ws == Tuple([i \in 1..Len(smaps) |-> LayerMap(self, smaps[i])])
                      cm == CombineNormalise(self,
                                CombineLoop(self, ws, 1, Full(<<bn, 1, H, W>>, Zero)))
                      ww == Flatten([b \in 1..bn |->
                                Flatten([i \in 1..Len(smaps) |-> Block(ws[i].data, b, H * W)])])
                  IN  [status |-> "ok",
                       cm |-> Tensor(<<bn, H, W>>, cm.data),
                       ww |-> Tensor(<<bn, self.map_num, H, W>>, ww)]

-----------------------------------------------------------------------------
(* The model and its layer observers (CaptureLayerOutput).  The network is     *)
(* not part of the repository; SmoothGrad only needs it to be a function of   *)
(* its input that hands each observed layer's output to the layer's hook.     *)
(* The network modelled here has two layers after a ReLU of input channel 0.  *)

RELU(a) == IF RLt(a, Zero) THEN Zero ELSE a

\* layer 1: [B, 2, H, W], the channels relu(x) and 7 * relu(x)
Layer1(x) ==
    LET B == x.shape[1]
        n == x.shape[3] * x.shape[4]
        cn == x.shape[2] * n
        at(b, p) == RELU(x.data[(b - 1) * cn + p])
    IN  Tensor(<<B, 2, x.shape[3], x.shape[4]>>,
               Flatten(Tuple([b \in 1..B |->
                   Tuple([p \in 1..n |-> at(b, p)])
                       \o Tuple([p \in 1..n |-> RMul(R(7), at(b, p))])])))

\* layer 2: [B, 2, H, 2W], every input pixel spread over two output pixels,
\* the channels relu(x) + (0 or 1) and 3 * relu(x)
Layer2(x) ==
    LET B == x.shape[1]
        n == x.shape[3] * x.shape[4]
        cn == x.shape[2] * n
        at(b, q) == RELU(x.data[(b - 1) * cn + ((q - 1) \div 2) + 1])
    IN  Tensor(<<B, 2, x.shape[3], 2 * x.shape[4]>>,
               Flatten(Tuple([b \in 1..B |->
                   Tuple([q \in 1..(2 * n) |-> RAdd(at(b, q), R((q - 1) % 2))])
                       \o Tuple([q \in 1..(2 * n) |-> RMul(R(3), at(b, q))])])))

LayerOutput(layer, x) == IF layer = 1 THEN Layer1(x) ELSE Layer2(x)

\* the device the model runs on
ModelDevice == "cpu"

\* a hook on a layer; device "any" is device=None
Hook(layer, device, data) == [layer |-> layer, device |-> device, data |-> data]

\* CaptureLayerOutput.__call__(m, i, o)
HookCall(hook, o, device) ==
    IF hook.device = "any" \/ hook.device = device
    THEN [hook EXCEPT !.data = o]
    ELSE hook

\* model(x): every observed layer runs and calls its hook
ModelForward(hs, x) ==
    Tuple([j \in 1..Len(hs) |-> HookCall(hs[j], LayerOutput(hs[j].layer, x), ModelDevice)])

-----------------------------------------------------------------------------
(* SmoothGrad *)

RECURSIVE RMax(_)
RMax(xs) ==
    IF Len(xs) = 1 THEN xs[1]
    ELSE LET r == RMax(Tail(xs)) IN IF RLt(r, xs[1]) THEN xs[1] ELSE r

RECURSIVE RMin(_)
RMin(xs) ==
    IF Len(xs) = 1 THEN xs[1]
    ELSE LET r == RMin(Tail(xs)) IN IF RLt(xs[1], r) THEN xs[1] ELSE r

\* stdev = self.stdev_spread * (torch.max(in_tensor) - torch.min(in_tensor))
NoiseStdev(self, x) == RMul(self.stdev_spread, RSub(RMax(x.data), RMin(x.data)))

\* noise drawn with standard deviation 1 whatever stdev is
NoiseOfUnitScale(sd, z) == z

\* torch.normal(mean=0, std=stdev, size=in_tensor.size()): stdev times a draw z
\* of the standard normal distribution
Noise(sd, z) == TScale(z, sd)

\* in_tensor_noise = in_tensor + noise
PerturbedInput(x, noise) == TAdd(x, noise)

\* in_tensor after an in-place sum (in_tensor += noise)
InputPerturbedInPlace(x, noise) == TAdd(x, noise)

\* in_tensor after the sum has been formed: the sum is a new tensor
InputAfterPerturb(x, noise) == x

\* [ self.getNorm(self.getSmap(x.data)) for x in hooks ]
LayerMaps(hs) ==
    Tuple([j \in 1..Len(hs) |->
        Normalize2DForward(SMOEScaleMapForward(hs[j].data, FALSE))])

TensorList(items) == [kind |-> "list", shape |-> <<>>, data |-> items]

\* out_csmap and out_smaps before the loop
InitialCsmap(debug, H, W) ==
    IF debug THEN TensorList(<<>>) ELSE Full(<<1, H, W>>, Zero)

InitialSmaps(debug, map_num, H, W) ==
    IF debug THEN TensorList(<<>>) ELSE Full(<<1, map_num, H, W>>, Zero)

\* whether acc += m runs: m must broadcast to the shape of acc
CanAddInPlace(acc, m) == m.shape = acc.shape

\* acc += (m * m) or acc += m
SmoothAccumulate(magnitude, acc, m) ==
    IF magnitude THEN TAdd(acc, TSquare(m)) ELSE TAdd(acc, m)

\* out.insert(0, m): the newest entry first
DebugPrepend(acc, m) == TensorList(<<m>> \o acc.data)

\* out.append(m) in debug mode
DebugAppend(acc, m) == TensorList(Append(acc.data, m))

\* a return without the division
SmoothUndivided(acc, iters) == acc

\* acc /= self.iters
SmoothFinalize(acc, iters) == TDivScalar(acc, R(iters))

NoSmoothGrad == [iters |-> 0, magnitude |-> FALSE, stdev_spread |-> Zero, maps_magnitude |-> FALSE]

NoCallArgs == [weights |-> NoWeights, debug |-> FALSE, in_tensor |-> NoTensor, hooks |-> <<>>]

\* the SmoothGrad variables in the specifications that do not use them
SmoothIdle ==
    /\ sg = NoSmoothGrad
    /\ hooks = <<>>
    /\ call = NoCallArgs
    /\ in_tensor = NoTensor
    /\ getCsmap = NoCombiner
    /\ stdev = Zero
    /\ pc = "idle"
    /\ iter = 0
    /\ out_csmap = NoTensor
    /\ out_smaps = NoTensor
    /\ ret_image = <<>>
    /\ hist = <<>>

-----------------------------------------------------------------------------
(* Inputs of the CombineSaliencyMaps specification *)

\* heights and widths of the generated maps
Sides == 1..2

\* a tensor whose flat data is a, a + b, a + 2b, ...
Ramp(shape, a, b) == Tensor(shape, Tuple([k \in 1..Prod(shape) |-> R(a + b * (k - 1))]))

\* 3D saliency maps [B, h, w]: ramps of batch size 1 (constant when h = w = 1)
\* and one map of batch size 2
Maps3D ==
    {Ramp(<<1, h, w>>, a, 1) : h \in Sides, w \in Sides, a \in 0..MaxVal}
        \cup {Ramp(<<2, 1, 2>>, 1, 1)}

\* list elements that are not 3D tensors: None, a 2D tensor, 4D tensors with
\* and without a trailing dimension of 1
NotMaps3D ==
    {NoTensor, Ramp(<<2, 2>>, 1, 1), Ramp(<<1, 2, 2, 1>>, 0, 1),
     Ramp(<<1, 2, 2, 2>>, 0, 1)}

\* the scenario of two constant maps 2.0 and 4.0 of shape [1,4,4]
ScenarioMaps == <<Full(<<1, 4, 4>>, R(2)), Full(<<1, 4, 4>>, R(4))>>

ScenarioSize == <<4, 4>>

MapLists ==
    {<<t>> : t \in Maps3D \cup NotMaps3D}
        \cup {<<t, u>> : t \in Maps3D \cup NotMaps3D, u \in Maps3D \cup NotMaps3D}
        \cup {ScenarioMaps}

OutputSizes == {<<h, w>> : h \in Sides, w \in Sides} \cup {ScenarioSize}

WeightVals == {R(v) : v \in 1..MaxWeight}

WeightArgs ==
    {NoWeights}
        \cup {WeightList(<<v>>) : v \in WeightVals}
        \cup {WeightTensor(<<v>>) : v \in WeightVals}
        \cup {WeightList(<<v, w>>) : v \in WeightVals, w \in WeightVals}

NoArgs == [output_size |-> <<>>, map_num |-> 0, weights |-> NoWeights, magnitude |-> FALSE]

NoCall == [called |-> FALSE, smaps |-> <<>>, out |-> NoResult]

NoLayerCall == [op |-> "none", x |-> NoTensor, out |-> NoTensor]

-----------------------------------------------------------------------------
(* The CombineSaliencyMaps specification: construct a combiner, call it once *)

Construct(output_size, map_num, weights, magnitude) ==
    /\ combiner.state = "none"
    /\ cargs' = [output_size |-> output_size, map_num |-> map_num,
                 weights |-> weights, magnitude |-> magnitude]
    /\ combiner' = CombineSaliencyMapsInit(output_size, map_num, weights, magnitude)
    /\ UNCHANGED <<cres, mcall, svars>>

Forward(smaps) ==
    /\ combiner.state = "ok"
    /\ ~cres.called
    /\ cres' = [called |-> TRUE, smaps |-> smaps,
                out |-> CombineSaliencyMapsForward(combiner, smaps)]
    /\ UNCHANGED <<cargs, combiner, mcall, svars>>

InitCombine ==
    /\ cargs = NoArgs
    /\ combiner = NoCombiner
    /\ cres = NoCall
    /\ mcall = NoLayerCall
    /\ SmoothIdle

NextCombine ==
    \/ \E output_size \in OutputSizes, map_num \in 1..2, weights \in WeightArgs,
          magnitude \in BOOLEAN :
          Construct(output_size, map_num, weights, magnitude)
    \/ \E smaps \in MapLists : Forward(smaps)

SpecCombine == InitCombine /\ [][NextCombine]_vars

-----------------------------------------------------------------------------
(* The layer specification: one call of SMOEScaleMap, Normalize2D or          *)
(* TruncNormalEntMap on a generated input                                     *)

\* all tensors of a shape with data in vals
TensorsOver(shape, vals) == {Tensor(shape, Tuple(f)) : f \in [1..Prod(shape) -> vals]}

\* activation values 2^j - 1, in units of 0.0000001
ActivationVals == {R(Pow2(j) - 1) : j \in 0..MaxExp}

\* the scenario of a [1,4,8,8] tensor filled with 2.0
ScenarioActivation == Full(<<1, 4, 8, 8>>, R(2 * EpsInv))

SMOEInputs ==
    TensorsOver(<<1, 2, 1, 2>>, ActivationVals)
        \cup TensorsOver(<<1, 3, 1, 1>>, ActivationVals)
        \cup TensorsOver(<<2, 2, 1, 1>>, ActivationVals \cup {R(-2)})
        \cup {ScenarioActivation, Ramp(<<2, 2>>, 0, 1), NoTensor}

MapVals == {R(v) : v \in 0..MaxVal}

Normalize2DInputs ==
    TensorsOver(<<1, 1, 1>>, MapVals)
        \cup TensorsOver(<<1, 1, 2>>, MapVals)
        \cup TensorsOver(<<1, 2, 2>>, MapVals)
        \cup TensorsOver(<<2, 1, 2>>, MapVals)
        \cup {Ramp(<<1, 1, 2, 2>>, 0, 1), NoTensor}

PreReluVals == {R(v) : v \in (-MaxMag)..MaxMag}

TruncNormalInputs ==
    TensorsOver(<<1, 1, 1, 1>>, PreReluVals)
        \cup TensorsOver(<<1, 2, 1, 1>>, PreReluVals)
        \cup {Ramp(<<1, 3, 1, 2>>, -3, 1), Ramp(<<2, 2>>, 0, 1)}

CallSMOEScaleMap(x, run_relu) ==
    /\ mcall.op = "none"
    /\ mcall' = [op |-> "SMOEScaleMap", x |-> x, out |-> SMOEScaleMapForward(x, run_relu)]
    /\ UNCHANGED <<cvars, svars>>

CallNormalize2D(x) ==
    /\ mcall.op = "none"
    /\ mcall' = [op |-> "Normalize2D", x |-> x, out |-> Normalize2DForward(x)]
    /\ UNCHANGED <<cvars, svars>>

CallTruncNormalEntMap(x) ==
    /\ mcall.op = "none"
    /\ mcall' = [op |-> "TruncNormalEntMap", x |-> x, out |-> TruncNormalEntMapForward(x)]
    /\ UNCHANGED <<cvars, svars>>

InitLayers ==
    /\ cargs = NoArgs
    /\ combiner = NoCombiner
    /\ cres = NoCall
    /\ mcall = NoLayerCall
    /\ SmoothIdle

NextLayers ==
    \/ \E x \in SMOEInputs, run_relu \in BOOLEAN : CallSMOEScaleMap(x, run_relu)
    \/ \E x \in Normalize2DInputs : CallNormalize2D(x)
    \/ \E x \in TruncNormalInputs : CallTruncNormalEntMap(x)

SpecLayers == InitLayers /\ [][NextLayers]_vars

-----------------------------------------------------------------------------
(* Properties of the layers *)

\* a value in [0, 1]
InUnit(a) == IsFinite(a) /\ RLe(Zero, a) /\ RLe(a, One)

\* C8: Normalize2D returns, for every 3D input of finite values, an output of
\* the same shape whose every element lies in [0,1], also for a sample whose
\* values are all equal and for a sample with a single spatial element.
C8_NormalizedInUnitRange ==
    (mcall.op = "Normalize2D" /\ IsTensor(mcall.x) /\ Rank(mcall.x) = 3) =>
        /\ IsTensor(mcall.out)
        /\ mcall.out.shape = mcall.x.shape
        /\ \A k \in 1..Len(mcall.out.data) : InUnit(mcall.out.data[k])

\* C8: Normalize2D has returned NaN for a sample of equal values and for a
\* sample of one element
C8_ConstantSampleGivesNaN ==
    /\ mcall.op = "Normalize2D"
    /\ IsTensor(mcall.x)
    /\ Rank(mcall.x) = 3
    /\ mcall.x.shape[1] = 1
    /\ \A k \in 1..Len(mcall.x.data) : mcall.x.data[k] = mcall.x.data[1]
    /\ \E k \in 1..Len(mcall.out.data) : IsNaN(mcall.out.data[k])

\* C9: in TruncNormalEntMap the survival term is Z = 1 - cdf(alpha) + 0.0000001,
\* so Z is strictly positive, and when s > 0 neither the logarithm's argument
\* nor the divisor 2Z is zero or negative.
C9_SurvivalTermPositive ==
    (mcall.op = "TruncNormalEntMap" /\ IsTensor(mcall.out)) =>
        \A k \in 1..Len(mcall.out.data) :
            LET p == mcall.out.data[k]
                Phi == RSub(p.cdf, Q(1, EpsInv))
            IN  (IsFinite(p.var) /\ RLt(Zero, p.var)) =>
                    /\ p.Z = RAdd(RSub(One, Phi), Q(1, EpsInv))
                    /\ RLt(Zero, p.Z)
                    /\ RLt(Zero, p.logarg)
                    /\ RLt(Zero, p.divisor)

\* C9: a pixel of TruncNormalEntMap with s > 0 where Z is negative
C9_NegativeZ ==
    /\ mcall.op = "TruncNormalEntMap"
    /\ IsTensor(mcall.out)
    /\ \E k \in 1..Len(mcall.out.data) :
          /\ RLt(Zero, mcall.out.data[k].var)
          /\ RLt(mcall.out.data[k].Z, Zero)

\* the channel values of pixel k of the SMOEScaleMap input are one positive value
EqualPositiveChannels(x, k) ==
    LET n == Numel(x) \div (x.shape[1] * x.shape[2])
        xs == ChannelsAt(x, ((k - 1) \div n) + 1, ((k - 1) % n) + 1)
    IN  \A c \in 1..Len(xs) : xs[c] = xs[1] /\ RLt(Zero, xs[c])

-----------------------------------------------------------------------------
(* The SmoothGrad specification: one call of a SmoothGrad object, iteration   *)
(* by iteration                                                               *)

SmoothGrads ==
    {[iters |-> n, magnitude |-> mg, stdev_spread |-> sp, maps_magnitude |-> mm] :
        n \in 1..MaxIters, mg \in BOOLEAN, sp \in {Zero, One}, mm \in BOOLEAN}

\* what a hook may hold from an earlier pass
StaleActivation == Layer1(Ramp(<<1, 1, 1, 2>>, 1, 2))

\* the observers: of layer 1, of both layers, with a second observer bound to
\* another device that still holds an earlier capture, and a single observer
\* bound to another device that holds nothing
HookLists ==
    {<<Hook(1, "any", NoTensor)>>,
     <<Hook(1, "cpu", StaleActivation), Hook(2, "any", NoTensor)>>,
     <<Hook(1, "any", NoTensor), Hook(2, "cuda", StaleActivation)>>,
     <<Hook(1, "cuda", NoTensor)>>}

SmoothInputs ==
    {Ramp(<<1, 1, 1, 2>>, 0, 1), Ramp(<<1, 1, 2, 2>>, 0, 1), Ramp(<<2, 1, 1, 2>>, 0, 1)}

SmoothWeights == {NoWeights, WeightList(<<R(1), R(3)>>), WeightList(<<One>>)}

\* draws of the standard normal distribution, one value per element
NoiseDraws(shape) ==
    {Full(shape, Zero),
     Tensor(shape, Tuple([k \in 1..Prod(shape) |-> R(1 - 2 * ((k - 1) % 2))])),
     Tensor(shape, Tuple([k \in 1..Prod(shape) |-> R((k % 3) - 1)]))}

\* lines 269-285: the combiner, the noise scale, the accumulators
Start(x, weights, debug) ==
    /\ pc = "ready"
    /\ LET H == x.shape[3]
           W == x.shape[4]
           c == CombineSaliencyMapsInit(<<H, W>>, Len(hooks), weights, sg.maps_magnitude)
       IN  /\ call' = [weights |-> weights, debug |-> debug, in_tensor |-> x, hooks |-> hooks]
           /\ in_tensor' = x
           /\ getCsmap' = c
           /\ IF c.state = "ok"
              THEN /\ stdev' = NoiseStdev(sg, x)
                   /\ out_csmap' = InitialCsmap(debug, H, W)
                   /\ out_smaps' = InitialSmaps(debug, Len(hooks), H, W)
                   /\ pc' = "loop"
              ELSE /\ pc' = "error"
                   /\ UNCHANGED <<stdev, out_csmap, out_smaps>>
    /\ UNCHANGED <<cvars, mcall, sg, hooks, iter, ret_image, hist>>

\* lines 287-311: one iteration of the loop.  The values the iteration computes
\* once (noise, in_tensor_noise, the hooks after the pass, the combiner's
\* result) are bound once.
Iterate(z) ==
    /\ pc = "loop"
    /\ iter < sg.iters
    /\ \E noise \in {Noise(stdev, z)} :
       \E in_tensor_noise \in {PerturbedInput(in_tensor, noise)} :
       \E hs \in {ModelForward(hooks, in_tensor_noise)} :
       \E r \in {CombineSaliencyMapsForward(getCsmap, LayerMaps(hs))} :
          /\ hooks' = hs
          /\ in_tensor' = InputAfterPerturb(in_tensor, noise)
          /\ IF /\ r.status = "ok"
                /\ call.debug \/ (CanAddInPlace(out_csmap, r.cm) /\ CanAddInPlace(out_smaps, r.ww))
             THEN /\ out_csmap' = IF call.debug THEN DebugAppend(out_csmap, r.cm)
                                  ELSE SmoothAccumulate(sg.magnitude, out_csmap, r.cm)
                  /\ out_smaps' = IF call.debug THEN DebugAppend(out_smaps, r.ww)
                                  ELSE SmoothAccumulate(sg.magnitude, out_smaps, r.ww)
                  /\ ret_image' = IF call.debug THEN Append(ret_image, in_tensor_noise)
                                  ELSE ret_image
                  /\ hist' = Append(hist, [noise |-> noise, stdev |-> stdev,
                                           input |-> in_tensor_noise,
                                           csmap |-> r.cm, smaps |-> r.ww])
                  /\ iter' = iter + 1
                  /\ pc' = "loop"
             ELSE /\ pc' = "error"
                  /\ UNCHANGED <<out_csmap, out_smaps, ret_image, hist, iter>>
    /\ UNCHANGED <<cvars, mcall, sg, call, getCsmap, stdev>>

\* lines 313-317: the division by iters and the return
Finish ==
    /\ pc = "loop"
    /\ iter = sg.iters
    /\ out_csmap' = IF call.debug THEN out_csmap ELSE SmoothFinalize(out_csmap, sg.iters)
    /\ out_smaps' = IF call.debug THEN out_smaps ELSE SmoothFinalize(out_smaps, sg.iters)
    /\ pc' = "done"
    /\ UNCHANGED <<cvars, mcall, sg, hooks, call, in_tensor, getCsmap, stdev, iter,
                   ret_image, hist>>

InitSmooth ==
    /\ cargs = NoArgs
    /\ combiner = NoCombiner
    /\ cres = NoCall
    /\ mcall = NoLayerCall
    /\ sg \in SmoothGrads
    /\ hooks \in HookLists
    /\ call = NoCallArgs
    /\ in_tensor = NoTensor
    /\ getCsmap = NoCombiner
    /\ stdev = Zero
    /\ pc = "ready"
    /\ iter = 0
    /\ out_csmap = NoTensor
    /\ out_smaps = NoTensor
    /\ ret_image = <<>>
    /\ hist = <<>>

NextSmooth ==
    \/ \E x \in SmoothInputs, weights \in SmoothWeights, debug \in BOOLEAN :
          Start(x, weights, debug)
    \/ \E z \in NoiseDraws(in_tensor.shape) : Iterate(z)
    \/ Finish

SpecSmooth == InitSmooth /\ [][NextSmooth]_vars

-----------------------------------------------------------------------------
(* Properties of CombineSaliencyMaps *)

\* the list holds exactly map_num 3D tensors of one batch size
WellFormedMaps(self, smaps) ==
    /\ Len(smaps) = self.map_num
    /\ \A i \in 1..Len(smaps) :
          /\ IsTensor(smaps[i])
          /\ Rank(smaps[i]) = 3
          /\ smaps[i].shape[1] = smaps[1].shape[1]

\* layer i of the list resized to the output size, as data of [B, H, W]
ResizedMap(self, t) ==
    Interpolate(Tensor(<<t.shape[1], 1, t.shape[2], t.shape[3]>>, t.data),
                self.output_size).data

\* (sum over layers i of w[i] * resized_i) / (sum of w), at every position
WeightedMean(self, smaps) ==
    LET rs == Tuple([i \in 1..Len(smaps) |-> ResizedMap(self, smaps[i])])
        wsum == RSum(self.weights)
    IN  Tuple([k \in 1..Len(rs[1]) |->
            RDiv(RSum(Tuple([i \in 1..Len(smaps) |-> RMul(self.weights[i], rs[i][k])])), wsum)])

\* C1: with magnitude=false, forward on exactly L 3D maps returns a combined map
\* of shape [B, H, W] that equals, at every pixel, the sum over the layers of
\* weight times resized map, divided by the sum of the weights; the two constant
\* maps 2.0 and 4.0 with weights [1,3] give 3.5 at every pixel.
C1_CombinedIsWeightedMean ==
    (cres.called /\ ~combiner.magnitude /\ WellFormedMaps(combiner, cres.smaps)) =>
        /\ cres.out.status = "ok"
        /\ cres.out.cm.shape = <<cres.smaps[1].shape[1]>> \o combiner.output_size
        /\ cres.out.cm.data = WeightedMean(combiner, cres.smaps)
        /\ (cres.smaps = ScenarioMaps /\ combiner.weights = <<R(1), R(3)>>
                /\ combiner.output_size = ScenarioSize) =>
              cres.out.cm = Full(<<1, 4, 4>>, Q(7, 2))

\* the scenario of C1 has been run: weights [1,3], output size [4,4]
C1_Witness ==
    /\ cres.called
    /\ ~combiner.magnitude
    /\ cargs.weights = WeightList(<<R(1), R(3)>>)
    /\ combiner.output_size = ScenarioSize
    /\ cres.smaps = ScenarioMaps
    /\ cres.out.status = "ok"
    /\ cres.out.cm = Full(<<1, 4, 4>>, Q(7, 2))

\* C6: a combiner constructed with map_num=1, weights=[1.0], magnitude=false
\* constructs successfully, and forward on a single map whose resolution is the
\* output size returns that map unchanged as the combined output.
C6_SingleMapIdentity ==
    (cargs.map_num = 1 /\ cargs.weights = WeightList(<<One>>) /\ ~cargs.magnitude) =>
        /\ combiner.state = "ok"
        /\ (cres.called /\ WellFormedMaps(combiner, cres.smaps)
                /\ <<cres.smaps[1].shape[2], cres.smaps[1].shape[3]>> = cargs.output_size) =>
              cres.out.cm = cres.smaps[1]

\* C6: the construction with map_num=1, weights=[1.0] has been tried and failed
C6_ConstructionFails ==
    /\ cargs.map_num = 1
    /\ cargs.weights = WeightList(<<One>>)
    /\ ~cargs.magnitude
    /\ combiner.state = "error"

\* C7: forward fails whenever the list length differs from map_num or any
\* element of the list, at any position, is not a 3D tensor.
C7_ForwardRejectsBadInput ==
    (cres.called
        /\ (\/ Len(cres.smaps) # combiner.map_num
            \/ \E i \in 1..Len(cres.smaps) :
                  ~(IsTensor(cres.smaps[i]) /\ Rank(cres.smaps[i]) = 3))) =>
        cres.out.status = "error"

\* C7: forward has returned a result for a list whose second element is a 4D
\* tensor
C7_Accepts4DElement ==
    /\ cres.called
    /\ Len(cres.smaps) = 2
    /\ IsTensor(cres.smaps[2])
    /\ Rank(cres.smaps[2]) = 4
    /\ cres.out.status = "ok"

-----------------------------------------------------------------------------
(* Properties of SmoothGrad *)

\* the call has passed the construction of the combiner (line 274)
InCall == pc \in {"loop", "done"} \/ (pc = "error" /\ getCsmap.state = "ok")

\* what the aggregator adds for a per-iteration value
Squared(a) == RMul(a, a)

\* element k of the sum over the iterations so far of the maps (their squares
\* in magnitude mode); field is "csmap" or "smaps"
SumOverIterations(field, k) ==
    RSum(Tuple([j \in 1..Len(hist) |->
        IF sg.magnitude THEN Squared(hist[j][field].data[k]) ELSE hist[j][field].data[k]]))

\* C2: in non-debug mode both accumulators hold, during the loop, the undivided
\* sum over the iterations made so far of the per-iteration maps (of their
\* elementwise squares when magnitude is set), and after the return that sum
\* over all iters iterations divided by iters, with no square root.
C2_MeanOverIterations ==
    (pc \in {"loop", "done"} /\ ~call.debug) =>
        LET n == IF pc = "done" THEN R(sg.iters) ELSE One
            H == call.in_tensor.shape[3]
            W == call.in_tensor.shape[4]
            L == Len(call.hooks)
        IN  /\ pc = "done" => Len(hist) = sg.iters
            /\ Len(hist) = iter
            /\ out_csmap.shape = <<1, H, W>>
            /\ out_smaps.shape = <<1, L, H, W>>
            /\ \A k \in 1..(H * W) :
                  out_csmap.data[k] = RDiv(SumOverIterations("csmap", k), n)
            /\ \A k \in 1..(L * H * W) :
                  out_smaps.data[k] = RDiv(SumOverIterations("smaps", k), n)

\* a non-debug call with magnitude set has returned after two iterations whose
\* combined maps differ
C2_Witness ==
    /\ pc = "done"
    /\ ~call.debug
    /\ sg.magnitude
    /\ sg.iters = 2
    /\ Len(hist) = 2
    /\ hist[1].csmap # hist[2].csmap
    /\ out_csmap # hist[1].csmap

\* C3: throughout a call the input is the one the call was given, the noise
\* scale is stdev_spread * (max(input) - min(input)) of that input, and every
\* iteration drew its noise at that scale and handed the model the original
\* input plus that iteration's noise.
C3_NoiseOnOriginalInput ==
    InCall =>
        /\ in_tensor = call.in_tensor
        /\ stdev = RMul(sg.stdev_spread,
                        RSub(RMax(call.in_tensor.data), RMin(call.in_tensor.data)))
        /\ \A j \in 1..Len(hist) :
              /\ hist[j].stdev = stdev
              /\ hist[j].input.shape = call.in_tensor.shape
              /\ \A k \in 1..Numel(call.in_tensor) :
                    hist[j].input.data[k] =
                        RAdd(call.in_tensor.data[k], hist[j].noise.data[k])

\* two iterations have run, each with its own noise that is not zero
C3_Witness ==
    /\ InCall
    /\ Len(hist) = 2
    /\ stdev # Zero
    /\ \E k \in 1..Numel(call.in_tensor) : hist[1].noise.data[k] # Zero
    /\ \E k \in 1..Numel(call.in_tensor) : hist[2].noise.data[k] # Zero
    /\ hist[1].noise # hist[2].noise
    /\ hist[2].input # call.in_tensor

\* what one pass of the pipeline gives for the input x: the model runs, every
\* hook's activation goes through SMOEScaleMap and Normalize2D, the maps are
\* combined
OnePass(x) ==
    CombineSaliencyMapsForward(
        CombineSaliencyMapsInit(<<x.shape[3], x.shape[4]>>, Len(call.hooks),
                                call.weights, sg.maps_magnitude),
        LayerMaps(ModelForward(call.hooks, x)))

\* C4: a debug call returns three lists of length iters; entry k of each is the
\* combined map, the stacked maps and the perturbed input of iteration k, as
\* the pipeline gave them; a non-debug call returns the empty list third and
\* tensors first and second.
C4_DebugListsPerIteration ==
    pc = "done" =>
        IF call.debug
        THEN /\ out_csmap.kind = "list"
             /\ out_smaps.kind = "list"
             /\ Len(out_csmap.data) = sg.iters
             /\ Len(out_smaps.data) = sg.iters
             /\ Len(ret_image) = sg.iters
             /\ Len(hist) = sg.iters
             /\ \A j \in 1..sg.iters :
                   /\ ret_image[j] = hist[j].input
                   /\ out_csmap.data[j] = OnePass(hist[j].input).cm
                   /\ out_smaps.data[j] = OnePass(hist[j].input).ww
        ELSE /\ ret_image = <<>>
             /\ out_csmap.kind = "tensor"
             /\ out_smaps.kind = "tensor"

\* a debug call has returned after two iterations whose perturbed inputs and
\* combined maps differ
C4_Witness ==
    /\ pc = "done"
    /\ call.debug
    /\ sg.iters = 2
    /\ Len(out_csmap.data) = 2
    /\ ret_image[1] # ret_image[2]
    /\ out_csmap.data[1] # out_csmap.data[2]

\* the call made one iteration with a noise scale of 0 and returned
SinglePassCall == pc = "done" /\ sg.iters = 1 /\ stdev = Zero

\* C5 as stated: a non-debug call with iters=1 and a noise scale of 0 returns
\* the result of the static single-pass pipeline, whatever magnitude is.
C5_EqualsStaticPipeline ==
    (SinglePassCall /\ ~call.debug) =>
        /\ out_csmap = OnePass(call.in_tensor).cm
        /\ out_smaps = OnePass(call.in_tensor).ww

\* C5 amended: a call with iters=1 and a noise scale of 0 that returns gives the
\* result of the static single-pass pipeline when magnitude is not set (in debug
\* mode as the single entry of each list), and its elementwise square when
\* magnitude is set.
C5_StaticPipelineUpToSquare ==
    SinglePassCall =>
        /\ OnePass(call.in_tensor).status = "ok"
        /\ IF call.debug
           THEN /\ out_csmap.data = <<OnePass(call.in_tensor).cm>>
                /\ out_smaps.data = <<OnePass(call.in_tensor).ww>>
                /\ ret_image = <<call.in_tensor>>
           ELSE IF sg.magnitude
           THEN /\ out_csmap = TSquare(OnePass(call.in_tensor).cm)
                /\ out_smaps = TSquare(OnePass(call.in_tensor).ww)
           ELSE /\ out_csmap = OnePass(call.in_tensor).cm
                /\ out_smaps = OnePass(call.in_tensor).ww

\* a non-debug call with magnitude set, iters=1 and a noise scale of 0 has
\* returned the square of the static result, which is not the static result
C5_Witness ==
    /\ SinglePassCall
    /\ ~call.debug
    /\ sg.magnitude
    /\ out_csmap = TSquare(OnePass(call.in_tensor).cm)
    /\ out_csmap # OnePass(call.in_tensor).cm

\* the observer h takes the capture of a pass of the model
Captures(h) == h.device = "any" \/ h.device = ModelDevice

\* the saliency fields of the observed layers computed from what the layers
\* put out in a pass on the input x
FieldsOfPass(x) ==
    Tuple([i \in 1..Len(call.hooks) |->
        Normalize2DForward(SMOEScaleMapForward(LayerOutput(call.hooks[i].layer, x), FALSE))])

\* C11: every completed iteration's combined map and stacked maps are those of
\* the fields computed from the tensors the layers put out in that iteration's
\* own pass, and after it every observer holds its layer's output of that pass;
\* this holds also for an observer whose hook skips its capture.
C11_FieldsFromOwnPass ==
    InCall =>
        \A j \in 1..Len(hist) :
            /\ CombineSaliencyMapsForward(getCsmap, FieldsOfPass(hist[j].input)).status = "ok"
            /\ hist[j].csmap = CombineSaliencyMapsForward(getCsmap, FieldsOfPass(hist[j].input)).cm
            /\ hist[j].smaps = CombineSaliencyMapsForward(getCsmap, FieldsOfPass(hist[j].input)).ww
            /\ j = Len(hist) =>
                  \A i \in 1..Len(hooks) :
                      hooks[i].data = LayerOutput(hooks[i].layer, hist[j].input)

\* C11: an iteration has completed with an observer that skipped its capture
\* and still holds the tensor of an earlier invocation, and the stacked maps of
\* the iteration are not those of its own pass
C11_StaleActivationUsed ==
    /\ InCall
    /\ Len(hist) >= 1
    /\ \E i \in 1..Len(hooks) :
          /\ ~Captures(hooks[i])
          /\ hooks[i].data = StaleActivation
          /\ hooks[i].data # LayerOutput(hooks[i].layer, hist[Len(hist)].input)
    /\ hist[Len(hist)].smaps #
          CombineSaliencyMapsForward(getCsmap, FieldsOfPass(hist[Len(hist)].input)).ww

\* C12: a non-debug call on an input [B, C, H, W] whose observers all capture
\* raises no error, and returns a combined result of shape [B, H, W] and a
\* stacked result of shape [B, L, H, W].
C12_AnyBatchCompletes ==
    (InCall /\ ~call.debug /\ \A i \in 1..Len(call.hooks) : Captures(call.hooks[i])) =>
        /\ pc # "error"
        /\ pc = "done" =>
              /\ out_csmap.shape = <<call.in_tensor.shape[1], call.in_tensor.shape[3],
                                     call.in_tensor.shape[4]>>
              /\ out_smaps.shape = <<call.in_tensor.shape[1], Len(call.hooks),
                                     call.in_tensor.shape[3], call.in_tensor.shape[4]>>

\* C12: a non-debug call on an input of batch size 2 whose observers all
\* capture has raised in its first iteration
C12_BatchTwoRaises ==
    /\ InCall
    /\ pc = "error"
    /\ ~call.debug
    /\ call.in_tensor.shape[1] = 2
    /\ \A i \in 1..Len(call.hooks) : Captures(call.hooks[i])
    /\ hist = <<>>
    /\ out_csmap.shape[1] = 1

====
